---- MODULE Spec2Model ----
(***************************************************************************)
(* Microdata extraction (microdata.py): the Item model, the extraction     *)
(* engine (_find_items / _extract), the property-value rule, the text      *)
(* iterator and Item.json_dict.                                            *)
(*                                                                         *)
(* A document is a sequence of element nodes in document (pre-order)       *)
(* order; node 1 is the node handed to get_items.  A Python str is a       *)
(* sequence of characters; a word such as "itemtype" that never needs to   *)
(* be cut is kept as one element of the sequence.  Python's None is the    *)
(* value None below, which no str equals.  Item objects live in a heap     *)
(* (a sequence of Item records); a reference to an Item is its index.      *)
(***************************************************************************)
EXTENDS Integers, Sequences, FiniteSets, TLC

VARIABLES doc, pc, heap, items, records, value, joined

vars == <<doc, pc, heap, items, records, value, joined>>

----------------------------------------------------------------------------
(* Python values *)

None == <<"None">>

\* bool(s) for s a str or None
Truthy(s) == s # None /\ s # <<>>

\* str.split(sep) with an explicit one-character separator: cuts at every
\* occurrence of sep, keeping empty pieces
RECURSIVE split(_, _)
split(s, sep) ==
    IF \A i \in DOMAIN s : s[i] # sep
    THEN <<s>>
    ELSE LET k == CHOOSE i \in DOMAIN s :
                     s[i] = sep /\ \A j \in 1..(i - 1) : s[j] # sep
         IN  <<SubSeq(s, 1, k - 1)>> \o split(SubSeq(s, k + 1, Len(s)), sep)

\* A property value is a str, None, a URI or an Item.  src is the element
\* the value was computed from (0: none); it is bookkeeping, not Python state.
Str(s) == [kind |-> "str", string |-> s, ref |-> 0, src |-> 0]

NoneValue == [kind |-> "none", string |-> None, ref |-> 0, src |-> 0]

\* what e.get(name) hands back as a Python value
PyValue(s) == IF s = None THEN NoneValue ELSE Str(s)

\* class URI: wraps whatever it is given, None included
URI(string) == [kind |-> "uri", string |-> string, ref |-> 0, src |-> 0]

ItemValue(r) == [kind |-> "item", string |-> None, ref |-> r, src |-> 0]

\* bool(v) of a property value: URI and Item define neither __bool__ nor
\* __len__, so their instances are always true
TruthyValue(v) ==
    CASE v.kind = "none" -> FALSE
      [] v.kind = "str"  -> v.string # <<>>
      [] OTHER           -> TRUE

----------------------------------------------------------------------------
(* Document adapter (lxml) *)

AttrNames == {"itemscope", "itemprop", "itemtype", "itemid",
              "content", "src", "href", "data", "datetime"}

Nodes == DOMAIN doc

\* e.iterchildren(): the children of e in document order
RECURSIVE SortedSeq(_)
SortedSeq(S) ==
    IF S = {} THEN <<>>
    ELSE LET m == CHOOSE x \in S : \A y \in S : x <= y
         IN  <<m>> \o SortedSeq(S \ {m})

iterchildren(e) == SortedSeq({c \in Nodes : doc[c].parent = e})

_attr(e, name) == doc[e].attrib[name]

_is_element(e) == e \in Nodes

_is_itemscope(e) == _attr(e, "itemscope") # None

\* etree.iterwalk(node, events=('start', 'end'))
RECURSIVE iterwalk(_), iterwalk_each(_)
iterwalk(node) ==
    <<[event |-> "start", element |-> node]>>
        \o iterwalk_each(iterchildren(node))
        \o <<[event |-> "end", element |-> node]>>

iterwalk_each(es) ==
    IF es = <<>> THEN <<>>
    ELSE iterwalk(Head(es)) \o iterwalk_each(Tail(es))

\* the lambda _text passes to _textiter
predicate(el) == doc[el].tag # "script"

\* _textiter(node, predicate): the strings it yields, in order.  An event
\* whose element fails the predicate, or whose text/tail is None, yields
\* nothing (the inner while loop moves on to the next event).
_textiter(node) ==
    LET ctx == iterwalk(node)
        result == [i \in DOMAIN ctx |->
                     IF ~predicate(ctx[i].element) THEN None
                     ELSE IF ctx[i].event = "start" THEN doc[ctx[i].element].text
                     ELSE IF ctx[i].element # node THEN doc[ctx[i].element].tail
                     ELSE None]
    IN  SelectSeq(result, LAMBDA r : r # None)

\* ''.join(parts)
RECURSIVE join(_)
join(parts) == IF parts = <<>> THEN <<>> ELSE Head(parts) \o join(Tail(parts))

_text(e) == join(_textiter(e))

----------------------------------------------------------------------------
(* Property-value rule *)

property_values ==
    [t \in {"meta", "audio", "embed", "iframe", "img", "source", "video",
            "a", "area", "link", "object", "time"} |->
        CASE t = "meta" -> "content"
          [] t \in {"audio", "embed", "iframe", "img", "source", "video"} -> "src"
          [] t \in {"a", "area", "link"} -> "href"
          [] t = "object" -> "data"
          [] t = "time" -> "datetime"]

_property_value(e) ==
    IF doc[e].tag \in DOMAIN property_values
    THEN LET attrib == property_values[doc[e].tag]
         IN  IF attrib \in {"href", "src"}
             THEN URI(_attr(e, attrib))
             ELSE PyValue(_attr(e, attrib))
    ELSE IF Truthy(_attr(e, "content"))
         THEN Str(_attr(e, "content"))
         ELSE Str(_text(e))

----------------------------------------------------------------------------
(* Item model *)

\* Item.__init__: dict holds the instance attributes that were assigned;
\* elem is the element the Item was made from (bookkeeping, set by _make_item)
Item(itemtype, itemid) ==
    [dict     |-> {"props"}
                    \cup (IF Truthy(itemtype) THEN {"itemtype"} ELSE {})
                    \cup (IF Truthy(itemid) THEN {"itemid"} ELSE {}),
     itemtype |-> IF Truthy(itemtype)
                  THEN LET parts == split(itemtype, " ")
                       IN  [i \in DOMAIN parts |-> URI(parts[i])]
                  ELSE <<>>,
     itemid   |-> IF Truthy(itemid) THEN URI(itemid) ELSE NoneValue,
     props    |-> <<>>,
     elem     |-> 0]

\* Item.set: props is an insertion-ordered dict, a sequence of (name, values)
set(self, name, v) ==
    IF \E k \in DOMAIN self.props : self.props[k].name = name
    THEN LET k == CHOOSE k \in DOMAIN self.props : self.props[k].name = name
         IN  [self EXCEPT !.props[k].values = Append(@, v)]
    ELSE [self EXCEPT !.props = Append(@, [name |-> name, values |-> <<v>>])]

get_all(self, name) ==
    IF \E k \in DOMAIN self.props : self.props[k].name = name
    THEN self.props[CHOOSE k \in DOMAIN self.props : self.props[k].name = name].values
    ELSE <<>>

get(self, name) ==
    LET values == get_all(self, name)
    IN  IF Len(values) > 0 THEN values[1] ELSE NoneValue

\* _make_item on heap h: the new heap and the reference to the new Item
\* (the ValueError branch is unreachable: every caller tests _is_itemscope)
_make_item(h, e) ==
    LET itemtype == _attr(e, "itemtype")
        itemid   == _attr(e, "itemid")
    IN  [heap |-> Append(h, [Item(itemtype, itemid) EXCEPT !.elem = e]),
         ref  |-> Len(h) + 1]

----------------------------------------------------------------------------
(* Extraction engine.  The Python functions mutate Items in place and      *)
(* return lists; here every function takes the heap and returns the new    *)
(* heap beside what the Python function returns.                           *)

RECURSIVE _extract(_, _, _), extract_children(_, _, _, _)
RECURSIVE extract_nested(_, _, _, _), extract_property(_, _, _, _)
RECURSIVE set_each(_, _, _, _)

\* for i in itemprop.split(" "): item.set(i, value)
set_each(h, item, names, v) ==
    IF names = <<>> THEN h
    ELSE set_each([h EXCEPT ![item] = set(@, Head(names), v)],
                  item, Tail(names), v)

\* the nested branch that sets the nested item under every piece of the
\* attribute, as the plain-property branch does with its value
extract_nested_fans_out(h, child, item, itemprop) ==
    LET m == _make_item(h, child)
        r == _extract(m.heap, child, m.ref)
    IN  [heap     |-> set_each(r.heap, item, split(itemprop, " "),
                               [ItemValue(m.ref) EXCEPT !.src = child]),
         unlinked |-> r.unlinked]

\* the nested branch that also reports the child as unlinked
extract_nested_promotes(h, child, item, itemprop) ==
    LET m == _make_item(h, child)
        r == _extract(m.heap, child, m.ref)
    IN  [heap     |-> [r.heap EXCEPT ![item] =
                          set(@, itemprop, [ItemValue(m.ref) EXCEPT !.src = child])],
         unlinked |-> <<child>> \o r.unlinked]

\* the nested branch that extracts the child's subtree into the outer item
extract_nested_outer(h, child, item, itemprop) ==
    LET m == _make_item(h, child)
        r == _extract(m.heap, child, item)
    IN  [heap     |-> [r.heap EXCEPT ![item] =
                          set(@, itemprop, [ItemValue(m.ref) EXCEPT !.src = child])],
         unlinked |-> r.unlinked]

\* _extract, branch "if itemprop and itemscope": the nested item gets the
\* child's subtree, and is set on the outer item under the whole attribute
extract_nested(h, child, item, itemprop) ==
    LET m == _make_item(h, child)
        r == _extract(m.heap, child, m.ref)
    IN  [heap     |-> [r.heap EXCEPT ![item] =
                          set(@, itemprop, [ItemValue(m.ref) EXCEPT !.src = child])],
         unlinked |-> r.unlinked]

\* _extract, branch "elif itemprop": one value, set under every piece of the
\* attribute cut at single spaces, then the child's own children
extract_property(h, child, item, itemprop) ==
    LET v == [_property_value(child) EXCEPT !.src = child]
    IN  _extract(set_each(h, item, split(itemprop, " "), v), child, item)

\* _extract's loop over e.iterchildren(), cs being the children still to
\* visit and unlinked the list built so far
extract_children(h, cs, item, unlinked) ==
    IF cs = <<>> THEN [heap |-> h, unlinked |-> unlinked]
    ELSE LET child     == Head(cs)
             itemprop  == _attr(child, "itemprop")
             itemscope == _is_itemscope(child)
         IN  IF Truthy(itemprop) /\ itemscope THEN
                 LET r == extract_nested(h, child, item, itemprop)
                 IN  extract_children(r.heap, Tail(cs), item, unlinked \o r.unlinked)
             ELSE IF Truthy(itemprop) THEN
                 LET r == extract_property(h, child, item, itemprop)
                 IN  extract_children(r.heap, Tail(cs), item, unlinked \o r.unlinked)
             ELSE IF itemscope THEN
                 extract_children(h, Tail(cs), item, Append(unlinked, child))
             ELSE
                 LET r == _extract(h, child, item)
                 IN  extract_children(r.heap, Tail(cs), item, unlinked \o r.unlinked)

_extract(h, e, item) == extract_children(h, iterchildren(e), item, <<>>)

RECURSIVE _find_items(_, _), find_each(_, _, _)

\* _find_items appending the item after the items of its unlinked nodes
find_items_item_last(h, e) ==
    IF _is_element(e) /\ _is_itemscope(e)
    THEN LET m == _make_item(h, e)
             r == _extract(m.heap, e, m.ref)
             f == find_each(r.heap, r.unlinked, <<>>)
         IN  [heap |-> f.heap, items |-> Append(f.items, m.ref)]
    ELSE find_each(h, iterchildren(e), <<>>)

\* items.extend(_find_items(x)) for every x of es, in order
find_each(h, es, found) ==
    IF es = <<>> THEN [heap |-> h, items |-> found]
    ELSE LET r == _find_items(h, Head(es))
         IN  find_each(r.heap, Tail(es), found \o r.items)

_find_items(h, e) ==
    IF _is_element(e) /\ _is_itemscope(e)
    THEN LET m == _make_item(h, e)
             r == _extract(m.heap, e, m.ref)
         IN  find_each(r.heap, r.unlinked, <<m.ref>>)
    ELSE find_each(h, iterchildren(e), <<>>)

\* get_items(value) for value an already parsed tree
get_items(node) == _find_items(<<>>, node)

----------------------------------------------------------------------------
(* Serializer *)

\* a JSON scalar: null or a string
JsonScalar(s) ==
    IF s = None THEN [kind |-> "null", string |-> None]
    ELSE [kind |-> "str", string |-> s]

\* what json_dict gives when an exception leaves it
Raised == [ok |-> FALSE, keys |-> {}, type |-> <<>>, id |-> NoneValue,
           properties |-> <<>>]

RECURSIVE json_dict(_, _), json_values(_, _), json_props(_, _)

\* the loop "for v in values": ok is FALSE when a nested json_dict raised
json_values(h, values) ==
    IF values = <<>> THEN [ok |-> TRUE, out |-> <<>>]
    ELSE LET v    == Head(values)
             d    == json_dict(h, v.ref)
             ok1  == v.kind = "item" => d.ok
             val  == IF v.kind = "item"
                     THEN [kind |-> "record", record |-> d]
                     ELSE JsonScalar(v.string)
             rest == json_values(h, Tail(values))
         IN  [ok |-> ok1 /\ rest.ok, out |-> <<val>> \o rest.out]

\* the loop "for name, values in self.props.items()"
json_props(h, props) ==
    IF props = <<>> THEN [ok |-> TRUE, out |-> <<>>]
    ELSE LET vs   == json_values(h, Head(props).values)
             rest == json_props(h, Tail(props))
         IN  [ok  |-> vs.ok /\ rest.ok,
              out |-> <<[name |-> Head(props).name, values |-> vs.out]>> \o rest.out]

\* Item.json_dict.  self.itemtype and self.itemid are the instance
\* attributes when __init__ assigned them; otherwise __getattr__ answers
\* with self.get(name), the first value of the property of that name.
\* (Property names are str, so the names asked for are the str "itemtype",
\* "itemid" and "string", each kept as one word.)
\*   self.itemtype from a property: a non-empty str iterates into characters,
\*     which have no .string (AttributeError); a URI or an Item is not
\*     iterable (TypeError).
\*   self.itemid from a property: a non-empty str has no .string
\*     (AttributeError); a URI gives its string; an Item answers .string
\*     through __getattr__ again, with its property "string".
json_dict(h, r) ==
    LET self      == h[r]
        typeAttr  == "itemtype" \in self.dict
        typeProp  == get(self, <<"itemtype">>)
        typeRaise == ~typeAttr /\ TruthyValue(typeProp)
        idAttr    == "itemid" \in self.dict
        idProp    == get(self, <<"itemid">>)
        idRaise   == ~idAttr /\ idProp.kind = "str" /\ TruthyValue(idProp)
        idKey     == idAttr \/ TruthyValue(idProp)
        id        == IF idAttr THEN PyValue(self.itemid.string)
                     ELSE IF idProp.kind = "uri" THEN PyValue(idProp.string)
                     ELSE IF idProp.kind = "item" THEN get(h[idProp.ref], <<"string">>)
                     ELSE NoneValue
        props     == json_props(h, self.props)
    IN  IF typeRaise \/ idRaise \/ ~props.ok THEN Raised
        ELSE [ok         |-> TRUE,
              keys       |-> {"properties"}
                               \cup (IF typeAttr THEN {"type"} ELSE {})
                               \cup (IF idKey THEN {"id"} ELSE {}),
              type       |-> [i \in DOMAIN self.itemtype |-> self.itemtype[i].string],
              id         |-> id,
              properties |-> props.out]

----------------------------------------------------------------------------
(* Documents: what the parser (root_node) hands to _find_items *)

MaxNodes == 4

MaxNameNodes == 3

MaxTextNodes == 3

MaxTypeLen == 4

NoAttrib == [a \in AttrNames |-> None]

Element(parent, tag, attrib, text, tail) ==
    [parent |-> parent, tag |-> tag, attrib |-> attrib, text |-> text, tail |-> tail]

RECURSIVE AncestorsOrSelf(_, _)
AncestorsOrSelf(ps, i) ==
    IF i = 0 THEN {} ELSE {i} \cup AncestorsOrSelf(ps, ps[i])

\* the parent sequences of the trees of n nodes numbered in document order:
\* node 1 is the root, and a later node hangs under the node before it or
\* under one of that node's ancestors
RECURSIVE Shapes(_)
Shapes(n) ==
    IF n = 1 THEN {<<0>>}
    ELSE UNION {{Append(ps, p) : p \in AncestorsOrSelf(ps, n - 1)} : ps \in Shapes(n - 1)}

\* all str of at most n characters over the alphabet chars
RECURSIVE Strings(_, _)
Strings(chars, n) ==
    IF n = 0 THEN {<<>>}
    ELSE Strings(chars, n - 1)
            \cup {Append(s, c) : s \in Strings(chars, n - 1), c \in chars}

\* a boolean attribute such as itemscope: absent, or present (lxml gives "")
Flag == {None, <<>>}

\* itemprop values of the extraction documents: a name, absent, empty
ExtractProps == <<<<"a">>, None, <<>>>>

\* itemprop values of the property-name documents
NameProps == {None, <<>>, <<"a">>, <<"a", " ", "b">>, <<"a", " ", " ", "b">>,
              <<"a", "\t", "b">>}

TypeChars == {"T1", "T2", " ", "\t"}

Tags == DOMAIN property_values \cup {"span"}

NoValue == <<>>

NoText == <<>>

\* the state once the document d is parsed
Parsed(d) ==
    /\ doc = d
    /\ pc = "parsed"
    /\ heap = <<>>
    /\ items = <<>>
    /\ records = <<>>
    /\ value = NoValue
    /\ joined = NoText

\* trees of div elements, each with or without itemscope and itemprop
Init ==
    \E n \in 1..MaxNodes : \E ps \in Shapes(n) :
      \E scope \in [1..n -> Flag] : \E prop \in [1..n -> DOMAIN ExtractProps] :
        Parsed([i \in 1..n |->
                  Element(ps[i], "div",
                          [NoAttrib EXCEPT !["itemscope"] = scope[i],
                                           !["itemprop"] = ExtractProps[prop[i]]],
                          <<"x">>, None)])

\* trees whose itemprop attributes list several names
InitNames ==
    \E n \in 1..MaxNameNodes : \E ps \in Shapes(n) :
      \E scope \in [1..n -> Flag] : \E prop \in [1..n -> NameProps] :
        Parsed([i \in 1..n |->
                  Element(ps[i], "div",
                          [NoAttrib EXCEPT !["itemscope"] = scope[i],
                                           !["itemprop"] = prop[i]],
                          <<"x">>, None)])

\* one itemscope element with any itemtype and itemid
InitTypes ==
    \E itemtype \in {None} \cup Strings(TypeChars, MaxTypeLen) :
      \E itemid \in {None, <<>>, <<"i">>} :
        Parsed(<<Element(0, "div",
                         [NoAttrib EXCEPT !["itemscope"] = <<>>,
                                          !["itemtype"] = itemtype,
                                          !["itemid"] = itemid],
                         None, None)>>)

\* an item with one property element of any tag, with or without its mapped
\* attribute and its content attribute, and possibly a second property
InitValue ==
    \E itemtype \in {None, <<>>, <<"T">>} : \E itemid \in {None, <<"i">>} :
      \E tag \in Tags : \E mapped \in {None, <<>>, <<"v">>} :
        \E content \in {None, <<>>, <<"c">>} : \E text \in {None, <<"t">>} :
          \E name \in {<<"a">>, <<"a", " ", "b">>} :
            \E second \in {None, <<"itemtype">>, <<"itemid">>} :
              LET root  == Element(0, "div",
                                   [NoAttrib EXCEPT !["itemscope"] = <<>>,
                                                    !["itemtype"] = itemtype,
                                                    !["itemid"] = itemid],
                                   None, None)
                  at    == IF tag \in DOMAIN property_values
                           THEN property_values[tag] ELSE "content"
                  first == Element(1, tag,
                                   [[NoAttrib EXCEPT !["content"] = content]
                                       EXCEPT ![at] = IF tag \in DOMAIN property_values
                                                      THEN mapped ELSE content,
                                              !["itemprop"] = name],
                                   text, None)
                  other == Element(1, "span",
                                   [NoAttrib EXCEPT !["itemprop"] = second],
                                   <<"s">>, None)
              IN  Parsed(IF second = None THEN <<root, first>>
                         ELSE <<root, first, other>>)

TextWords == <<"t1", "t2", "t3", "t4", "t5">>

TailWords == <<"l1", "l2", "l3", "l4", "l5">>

\* trees of p and script elements, each with or without text and tail
InitText ==
    \E n \in 1..MaxTextNodes : \E ps \in Shapes(n) :
      \E tag \in [1..n -> {"p", "script"}] :
        \E hasText \in [1..n -> BOOLEAN] : \E hasTail \in [1..n -> BOOLEAN] :
          Parsed([i \in 1..n |->
                    Element(ps[i], tag[i], NoAttrib,
                            IF hasText[i] THEN <<TextWords[i]>> ELSE None,
                            IF hasTail[i] THEN <<TailWords[i]>> ELSE None)])

----------------------------------------------------------------------------
(* Operations *)

\* get_items on the parsed tree
GetItems ==
    /\ pc = "parsed"
    /\ LET r == get_items(1)
       IN  /\ heap' = r.heap
           /\ items' = r.items
    /\ pc' = "found"
    /\ UNCHANGED <<doc, records, value, joined>>

\* item.json_dict() for every item get_items returned
JsonDict ==
    /\ pc = "found"
    /\ records' = [i \in DOMAIN items |-> json_dict(heap, items[i])]
    /\ pc' = "dumped"
    /\ UNCHANGED <<doc, heap, items, value, joined>>

\* _property_value applied to every element of the tree
PropertyValue ==
    /\ pc = "parsed"
    /\ value' = [e \in Nodes |-> _property_value(e)]
    /\ pc' = "value"
    /\ UNCHANGED <<doc, heap, items, records, joined>>

\* _text applied to every element of the tree
Text ==
    /\ pc = "parsed"
    /\ joined' = [e \in Nodes |-> _text(e)]
    /\ pc' = "text"
    /\ UNCHANGED <<doc, heap, items, records, value>>

Next == GetItems \/ JsonDict \/ PropertyValue \/ Text

Spec == Init /\ [][Next]_vars

SpecNames == InitNames /\ [][Next]_vars

SpecTypes == InitTypes /\ [][Next]_vars

SpecValue == InitValue /\ [][Next]_vars

SpecText == InitText /\ [][Next]_vars

----------------------------------------------------------------------------
(* Vocabulary of the properties *)

RECURSIVE AncestorsOf(_)
AncestorsOf(e) ==
    IF doc[e].parent = 0 THEN {}
    ELSE {doc[e].parent} \cup AncestorsOf(doc[e].parent)

DescendantsOrSelf(e) == {d \in Nodes : d = e \/ e \in AncestorsOf(d)}

\* the nearest itemscope ancestor of e (0: none); ancestors have smaller
\* numbers the farther they are
Enclosing(e) ==
    LET scoped == {a \in AncestorsOf(e) : _attr(a, "itemscope") # None}
    IN  IF scoped = {} THEN 0
        ELSE CHOOSE a \in scoped : \A b \in scoped : b <= a

HasProp(e) == _attr(e, "itemprop") # None

HasScope(e) == _attr(e, "itemscope") # None

\* the Items made from element e
ItemsOf(e) == {r \in DOMAIN heap : heap[r].elem = e}

\* the places (property k, position j) of the values of Item r
Slots(r) ==
    UNION {{<<k, j>> : j \in DOMAIN heap[r].props[k].values} :
              k \in DOMAIN heap[r].props}

ValueAt(r, kj) == heap[r].props[kj[1]].values[kj[2]]

NameAt(r, kj) == heap[r].props[kj[1]].name

\* Item r holds a value that came from element c
Holds(r, c) == \E kj \in Slots(r) : ValueAt(r, kj).src = c

\* Item r is a value of Item p
IsValueOf(r, p) ==
    \E kj \in Slots(p) : ValueAt(p, kj).kind = "item" /\ ValueAt(p, kj).ref = r

TopLevel == {items[i] : i \in DOMAIN items}

\* how often Item r occurs in the returned list
TopCount(r) == Cardinality({i \in DOMAIN items : items[i] = r})

\* how often Item r occurs as a value, over all Items
ValueCount(r) ==
    Cardinality(UNION {{<<p, kj>> : kj \in {x \in Slots(p) :
                                              /\ ValueAt(p, x).kind = "item"
                                              /\ ValueAt(p, x).ref = r}} :
                          p \in DOMAIN heap})

Found == pc \in {"found", "dumped"}

Whitespace == {" ", "\t"}

\* the non-empty pieces of s between whitespace, in order
RECURSIVE Tokens(_)
Tokens(s) ==
    IF s = <<>> THEN <<>>
    ELSE IF Head(s) \in Whitespace THEN Tokens(Tail(s))
    ELSE LET n == IF \E i \in DOMAIN s : s[i] \in Whitespace
                  THEN (CHOOSE i \in DOMAIN s :
                            s[i] \in Whitespace
                            /\ \A j \in 1..(i - 1) : s[j] \notin Whitespace) - 1
                  ELSE Len(s)
         IN  <<SubSeq(s, 1, n)>> \o Tokens(SubSeq(s, n + 1, Len(s)))

Range(q) == {q[i] : i \in DOMAIN q}

----------------------------------------------------------------------------
(* The extraction claims, under Spec *)

\* an element that starts a nested item: itemscope, an itemprop the code
\* takes as present (non-empty), and an itemscope ancestor
NestedOf(e) == HasScope(e) /\ Truthy(_attr(e, "itemprop")) /\ Enclosing(e) # 0

\* C1 as stated: an element with itemscope and itemprop inside another
\* itemscope element gives an Item that is a value of the enclosing Item and
\* is also in the list get_items returns.
C1_NestedAlsoTopLevel ==
    pc = "found" =>
        \A e \in Nodes :
            (HasScope(e) /\ HasProp(e) /\ Enclosing(e) # 0) =>
                \E r \in ItemsOf(e) :
                    /\ \E p \in ItemsOf(Enclosing(e)) : IsValueOf(r, p)
                    /\ r \in TopLevel

\* C1 amended: an element with itemscope and a non-empty itemprop inside
\* another itemscope element gives exactly one Item, which is a value of the
\* Item of its nearest itemscope ancestor and is not in the list get_items
\* returns; with an empty itemprop the element counts as having no itemprop:
\* its Item is in the returned list and is a value of no Item.
C1_NestedOnlyInParent ==
    Found =>
        \A e \in Nodes :
            /\ NestedOf(e) =>
                  /\ Cardinality(ItemsOf(e)) = 1
                  /\ \A r \in ItemsOf(e) :
                        /\ r \notin TopLevel
                        /\ \E p \in ItemsOf(Enclosing(e)) : IsValueOf(r, p)
            /\ (HasScope(e) /\ _attr(e, "itemprop") = <<>> /\ Enclosing(e) # 0) =>
                  /\ Cardinality(ItemsOf(e)) = 1
                  /\ \A r \in ItemsOf(e) :
                        /\ r \in TopLevel
                        /\ \A p \in DOMAIN heap : ~IsValueOf(r, p)

\* a nested item was made and set on its enclosing item
C1_Witness ==
    /\ pc = "found"
    /\ \E e \in Nodes :
          /\ NestedOf(e)
          /\ \E r \in ItemsOf(e) : \E p \in ItemsOf(Enclosing(e)) : IsValueOf(r, p)

\* C2 (under SpecNames): once get_items has returned, every Item it made is
\* either once in the returned list or once a value of one Item, never both
\* and never neither; an Item that owns another was made before it, so the
\* owners form a forest.
C2_SingleOwner ==
    Found =>
        \A r \in DOMAIN heap :
            /\ TopCount(r) + ValueCount(r) = 1
            /\ \A p \in DOMAIN heap : IsValueOf(r, p) => p < r

\* a top-level Item that owns a nested Item whose itemprop lists two names,
\* beside a second nested Item owned by either of them
C2_Witness ==
    /\ pc = "found"
    /\ \E r \in TopLevel : \E a, b \in DOMAIN heap :
          /\ a # b
          /\ IsValueOf(a, r)
          /\ Len(Tokens(_attr(heap[a].elem, "itemprop"))) = 2
          /\ IsValueOf(b, r) \/ IsValueOf(b, a)

\* the values Item r holds from element c are c's property value
ValueOf(r, c) ==
    \A kj \in Slots(r) :
        ValueAt(r, kj).src = c =>
            ValueAt(r, kj) = [_property_value(c) EXCEPT !.src = c]

\* C3 as stated: every element with itemprop and without itemscope gives its
\* value to the Item of its nearest itemscope ancestor and to no other Item,
\* and to no Item when it has no itemscope ancestor.
C3_EveryItemprop ==
    pc = "found" =>
        \A c \in Nodes :
            (HasProp(c) /\ ~HasScope(c)) =>
                IF Enclosing(c) # 0
                THEN /\ \E r \in ItemsOf(Enclosing(c)) : Holds(r, c)
                     /\ \A r \in DOMAIN heap :
                           Holds(r, c) => heap[r].elem = Enclosing(c) /\ ValueOf(r, c)
                ELSE \A r \in DOMAIN heap : ~Holds(r, c)

\* C3 amended: the same for every element whose itemprop is non-empty; an
\* element whose itemprop is the empty string gives its value to no Item.
C3_NearestItem ==
    Found =>
        \A c \in Nodes :
            (HasProp(c) /\ ~HasScope(c)) =>
                IF Enclosing(c) # 0 /\ Truthy(_attr(c, "itemprop"))
                THEN /\ \E r \in ItemsOf(Enclosing(c)) : Holds(r, c)
                     /\ \A r \in DOMAIN heap :
                           Holds(r, c) => heap[r].elem = Enclosing(c) /\ ValueOf(r, c)
                ELSE \A r \in DOMAIN heap : ~Holds(r, c)

\* a property element whose nearest itemscope ancestor is not its parent and
\* is itself inside another item, and whose value that ancestor's Item holds
C3_Witness ==
    /\ pc = "found"
    /\ \E c \in Nodes :
          /\ Truthy(_attr(c, "itemprop")) /\ ~HasScope(c)
          /\ Enclosing(c) # 0
          /\ doc[c].parent # Enclosing(c)
          /\ Enclosing(Enclosing(c)) # 0
          /\ \E r \in ItemsOf(Enclosing(c)) : Holds(r, c)

\* C4: an element with itemscope and no itemprop inside another item's
\* subtree gives one Item, which is in the returned list once and is a value
\* of no Item; no Item of an ancestor holds a value from it or from its
\* descendants; and the returned list is in document order of the elements
\* the Items were made from.
C4_UnlinkedTopLevelInOrder ==
    Found =>
        /\ \A e \in Nodes :
              (HasScope(e) /\ ~HasProp(e) /\ Enclosing(e) # 0) =>
                  /\ Cardinality(ItemsOf(e)) = 1
                  /\ \A r \in ItemsOf(e) :
                        /\ TopCount(r) = 1
                        /\ ValueCount(r) = 0
                  /\ \A p \in DOMAIN heap :
                        heap[p].elem \in AncestorsOf(e) =>
                            \A d \in DescendantsOrSelf(e) : ~Holds(p, d)
        /\ \A i, j \in DOMAIN items :
              i < j => heap[items[i]].elem < heap[items[j]].elem

\* an unlinked element inside a nested linked item, with a property of its
\* own, emitted after the outer item
C4_Witness ==
    /\ pc = "found"
    /\ \E e \in Nodes :
          /\ HasScope(e) /\ ~HasProp(e)
          /\ Enclosing(e) # 0 /\ NestedOf(Enclosing(e))
          /\ \E d \in DescendantsOrSelf(e) : \E r \in ItemsOf(e) : d # e /\ Holds(r, d)
          /\ Len(items) >= 2

----------------------------------------------------------------------------
(* The claims about names, types, values, text and records *)

\* C5: an element with an itemprop list of names that gives a value to an
\* Item (its property value, or its nested Item) has that value under each
\* listed name and under no other key, and no key of any Item is empty or
\* contains whitespace.
C5_OneKeyPerName ==
    pc = "found" =>
        /\ \A c \in Nodes :
              (Truthy(_attr(c, "itemprop")) /\ Enclosing(c) # 0) =>
                  \A p \in ItemsOf(Enclosing(c)) :
                      {NameAt(p, kj) : kj \in {x \in Slots(p) : ValueAt(p, x).src = c}}
                          = Range(Tokens(_attr(c, "itemprop")))
        /\ \A r \in DOMAIN heap : \A k \in DOMAIN heap[r].props :
              /\ heap[r].props[k].name # <<>>
              /\ \A i \in DOMAIN heap[r].props[k].name :
                    heap[r].props[k].name[i] \notin Whitespace

\* C6: the types of an Item are the non-empty whitespace-separated tokens of
\* the itemtype attribute, in order, and there are no types when the element
\* has no itemtype attribute.  (An attribute without any token may give no
\* types or an empty list.)
C6_TypesAreTokens ==
    pc = "found" =>
        \A r \in DOMAIN heap :
            LET itemtype == _attr(heap[r].elem, "itemtype")
                types    == [i \in DOMAIN heap[r].itemtype |-> heap[r].itemtype[i].string]
            IN  /\ itemtype = None => "itemtype" \notin heap[r].dict
                /\ itemtype # None =>
                      /\ "itemtype" \in heap[r].dict => types = Tokens(itemtype)
                      /\ Tokens(itemtype) # <<>> => "itemtype" \in heap[r].dict

\* C7: the property value of an element is a URI of the mapped attribute for
\* a tag mapped to href or src, the mapped attribute's plain value for a tag
\* mapped to another attribute, and for any other tag the content attribute
\* whenever it is present (the empty string too), the text otherwise.
C7_ThreeCaseRule ==
    pc = "value" =>
        \A e \in Nodes :
            value[e] =
                IF doc[e].tag \in {"audio", "embed", "iframe", "img", "source", "video"}
                THEN URI(_attr(e, "src"))
                ELSE IF doc[e].tag \in {"a", "area", "link"}
                THEN URI(_attr(e, "href"))
                ELSE IF doc[e].tag = "meta" THEN PyValue(_attr(e, "content"))
                ELSE IF doc[e].tag = "object" THEN PyValue(_attr(e, "data"))
                ELSE IF doc[e].tag = "time" THEN PyValue(_attr(e, "datetime"))
                ELSE IF _attr(e, "content") # None THEN Str(_attr(e, "content"))
                ELSE Str(_text(e))

\* the text the claim describes: the element's own text, then for every
\* child in order the child's text (nothing of a script child's subtree)
\* followed by the child's tail
RECURSIVE TextOfSubtree(_), TextOfChildren(_)
TextOfSubtree(e) ==
    IF doc[e].tag = "script" THEN <<>>
    ELSE (IF doc[e].text = None THEN <<>> ELSE doc[e].text)
            \o TextOfChildren(iterchildren(e))

TextOfChildren(cs) ==
    IF cs = <<>> THEN <<>>
    ELSE TextOfSubtree(Head(cs))
            \o (IF doc[Head(cs)].tail = None THEN <<>> ELSE doc[Head(cs)].tail)
            \o TextOfChildren(Tail(cs))

\* C8: the text of a node is its own text and the text and tail of all its
\* descendants in document order, without what is inside script elements
\* but with the tail that follows a script element.
C8_TextKeepsScriptTail ==
    pc = "text" =>
        \A e \in Nodes :
            doc[e].tag # "script" => joined[e] = TextOfSubtree(e)

\* C9: json_dict of every returned Item completes and gives a record with
\* the key properties, with the key type exactly when the element has an
\* itemtype and the key id exactly when it has an itemid, whatever the names
\* of the item's properties.  (Read generously: an empty itemtype or itemid
\* attribute may count as none.)
C9_RecordKeys ==
    pc = "dumped" =>
        \A i \in DOMAIN records :
            LET e == heap[items[i]].elem
            IN  /\ records[i].ok
                /\ "properties" \in records[i].keys
                /\ "type" \in records[i].keys <=> Truthy(_attr(e, "itemtype"))
                /\ "id" \in records[i].keys <=> Truthy(_attr(e, "itemid"))

\* C10: a property element whose tag has a mapped attribute that is absent
\* gives its Item a null value (read generously: None, or a URI of None)
\* under each listed name, and json_dict of that Item completes with a null
\* at the same place.
C10_NullKept ==
    pc = "dumped" =>
        \A c \in Nodes :
            (/\ Truthy(_attr(c, "itemprop")) /\ ~HasScope(c)
             /\ doc[c].tag \in DOMAIN property_values
             /\ _attr(c, property_values[doc[c].tag]) = None
             /\ Enclosing(c) # 0) =>
                \A p \in ItemsOf(Enclosing(c)) :
                    \A name \in Range(Tokens(_attr(c, "itemprop"))) :
                        \E kj \in Slots(p) :
                            /\ NameAt(p, kj) = name
                            /\ ValueAt(p, kj).src = c
                            /\ ValueAt(p, kj).string = None
                            /\ json_dict(heap, p).ok
                            /\ json_dict(heap, p).properties[kj[1]].values[kj[2]].kind = "null"

====
